---- MODULE Spec2Model ----
(***************************************************************************)
(* Model of iolanta_roadmap/facets/roadmap.py: the GraphvizRoadmap facet.  *)
(*                                                                         *)
(* Strings whose characters matter (task ids, port names, edge endpoints)  *)
(* are sequences of one-character strings, so that as_graph_id and the     *)
(* f-strings of draw_edges are computed character by character.            *)
(* A row of the record stream is a record with every key; Absent marks a   *)
(* key the row does not carry (ids and titles themselves are non-empty).   *)
(* A dict is the sequence of its values in insertion order; both dicts of  *)
(* the facet are keyed by the id of the value.                             *)
(***************************************************************************)
EXTENDS Integers, Sequences, FiniteSets, TLC

\* Longest record stream of the task specifications.
MaxRows == 3

\* Longest record stream of the specification of repeated show() calls.
MaxCallRows == 2

Absent == <<>>

Range(s) == {s[i] : i \in DOMAIN s}

(***************************************************************************)
(* Strings                                                                 *)
(***************************************************************************)

\* Code points of the characters the ids are made of (Python compares str
\* by code point).
CharCode(c) ==
    CASE c = "1" -> 49
      [] c = ":" -> 58
      [] c = "_" -> 95
      [] c = "a" -> 97
      [] c = "b" -> 98
      [] c = "p" -> 112
      [] c = "q" -> 113
      [] c = "r" -> 114
      [] OTHER -> 0

RECURSIVE str_lt(_, _)
str_lt(a, b) ==
    IF a = <<>> THEN b # <<>>
    ELSE IF b = <<>> THEN FALSE
    ELSE IF Head(a) = Head(b) THEN str_lt(Tail(a), Tail(b))
    ELSE CharCode(Head(a)) < CharCode(Head(b))

as_graph_id(node) ==
    [i \in 1..Len(node) |-> IF node[i] = ":" THEN "_" ELSE node[i]]

\* sorted(S) for a set of distinct strings.
RECURSIVE SortedKeys(_)
SortedKeys(S) ==
    IF S = {} THEN <<>>
    ELSE LET m == CHOOSE x \in S : \A y \in S \ {x} : str_lt(x, y)
         IN  <<m>> \o SortedKeys(S \ {m})

\* list(set(...)): the elements of S, each once, in an order Python does not
\* define (str hashes are randomised): every order is an outcome.
list_of_set(S) ==
    {s \in [1..Cardinality(S) -> S] : \A i, j \in 1..Cardinality(S) : i # j => s[i] # s[j]}

(***************************************************************************)
(* Task                                                                    *)
(***************************************************************************)

background_color(task) ==
    IF task.is_focused THEN "#730FC3"
    ELSE IF task.is_bug THEN "#AC6363" ELSE "#788897"

pen_color(task) ==
    IF task.is_focused THEN "#730FC3"
    ELSE IF task.is_bug THEN "#AC6363" ELSE "#4B5D6C"

(***************************************************************************)
(* dict                                                                    *)
(***************************************************************************)

HasKey(d, k) == \E i \in DOMAIN d : d[i].id = k

Get(d, k) == d[CHOOSE i \in DOMAIN d : d[i].id = k]

\* d[v.id] = v: a key already there keeps its place and takes the new value.
DictSet(d, v) ==
    IF HasKey(d, v.id)
    THEN [i \in DOMAIN d |-> IF d[i].id = v.id THEN v ELSE d[i]]
    ELSE Append(d, v)

RECURSIVE DictFrom(_, _)
DictFrom(d, pairs) ==
    IF pairs = <<>> THEN d ELSE DictFrom(DictSet(d, Head(pairs)), Tail(pairs))

dict(pairs) == DictFrom(<<>>, pairs)

(***************************************************************************)
(* _task_by_id_stream, task_by_id                                          *)
(***************************************************************************)

\* itertools.groupby(sorted(rows, key=_['task']), key=_['task']): the sort
\* is stable, so a group holds the rows of one task id in stream order.
grouped_rows(rows) ==
    LET keys == SortedKeys({rows[i].task : i \in DOMAIN rows})
    IN  [k \in 1..Len(keys) |->
            [task_id |-> keys[k],
             rows    |-> SelectSeq(rows, LAMBDA r : r.task = keys[k])]]

MissingKey_task_only(rows) ==
    IF \E i \in DOMAIN rows : rows[i].task = Absent THEN <<"t", "a", "s", "k">>
    ELSE Absent

\* The key whose lookup raises KeyError while the stream is consumed, or
\* Absent: _['task'] is applied to every row by sorted(), first_row['title']
\* to the first row of a group.
MissingKey(rows) ==
    IF \E i \in DOMAIN rows : rows[i].task = Absent THEN <<"t", "a", "s", "k">>
    ELSE IF \E g \in Range(grouped_rows(rows)) : Head(g.rows).title = Absent
         THEN <<"t", "i", "t", "l", "e">>
    ELSE Absent

Refs(rows, key) ==
    {as_graph_id(rows[i][key]) : i \in {j \in DOMAIN rows : rows[j][key] # Absent}}

\* The ids a key refers to, row by row.
RECURSIVE RefList(_, _)
RefList(rows, key) ==
    IF rows = <<>> THEN <<>>
    ELSE (IF Head(rows)[key] # Absent THEN <<as_graph_id(Head(rows)[key])>> ELSE <<>>)
             \o RefList(Tail(rows), key)

blocks_no_set(rows) == {RefList(rows, "blocks")}

\* list(set(as_graph_id(row['blocks']) for the rows that carry it)).
blocks_of(rows) == list_of_set(Refs(rows, "blocks"))

is_branch_of_of(rows) == list_of_set(Refs(rows, "is_branch_of"))

is_bug_any_row(rows) == \E i \in DOMAIN rows : rows[i].is_bug

is_bug_of(rows) == Head(rows).is_bug

is_focused_of(rows) == Head(rows).is_focused

\* The Task records one group may yield (one per order of the two lists).
TasksOfGroup(g) ==
    {[id           |-> as_graph_id(g.task_id),
      title        |-> Head(g.rows).title,
      is_bug       |-> is_bug_of(g.rows),
      is_focused   |-> is_focused_of(g.rows),
      blocks       |-> bl,
      is_branch_of |-> ib] :
        bl \in blocks_of(g.rows),
        ib \in is_branch_of_of(g.rows)}

RECURSIVE StreamFrom(_, _)
StreamFrom(groups, k) ==
    IF k > Len(groups) THEN {<<>>}
    ELSE {<<t>> \o rest : t \in TasksOfGroup(groups[k]),
                          rest \in StreamFrom(groups, k + 1)}

\* The sequences of Tasks the generator may yield, when no lookup raises.
task_by_id_stream(rows) == StreamFrom(grouped_rows(rows), 1)

(***************************************************************************)
(* task_with_branches_by_id                                                *)
(***************************************************************************)

Parents_present(tasks) ==
    {p \in UNION {Range(tasks[i].is_branch_of) : i \in DOMAIN tasks} : HasKey(tasks, p)}

\* The parent ids of the (is_branch_of, child_task) rows.
Parents(tasks) == UNION {Range(tasks[i].is_branch_of) : i \in DOMAIN tasks}

\* The children of one group: the (parent, child) rows are listed child by
\* child and sorted by parent with a stable sort.
branches_of_first_parent(tasks, parent_id) ==
    SelectSeq(tasks, LAMBDA child :
        child.is_branch_of # <<>> /\ Head(child.is_branch_of) = parent_id)

branches_of(tasks, parent_id) ==
    SelectSeq(tasks, LAMBDA child : parent_id \in Range(child.is_branch_of))

task_with_branches_by_id(tasks) ==
    LET keys == SortedKeys(Parents(tasks))
    IN  [k \in 1..Len(keys) |->
            LET parent == Get(tasks, keys[k])
            IN  [id           |-> parent.id,
                 title        |-> parent.title,
                 is_bug       |-> parent.is_bug,
                 is_focused   |-> parent.is_focused,
                 blocks       |-> parent.blocks,
                 is_branch_of |-> parent.is_branch_of,
                 branches     |-> branches_of(tasks, keys[k])]]

(***************************************************************************)
(* Nodes                                                                   *)
(***************************************************************************)

XorPort == <<"x", "o", "r">>

TitlePort == <<"t", "i", "t", "l", "e">>

\* graph.node(...) of draw_nodes_with_branches: the table's cells carry the
\* ports xor and title, then one port per branch.
branch_node(task) ==
    [name    |-> task.id,
     shape   |-> "none",
     title   |-> task.title,
     ports   |-> <<XorPort, TitlePort>> \o
                 [i \in DOMAIN task.branches |-> task.branches[i].id],
     bgcolor |-> background_color(task),
     color   |-> pen_color(task)]

nodes_with_branches(twb) == [i \in DOMAIN twb |-> branch_node(twb[i])]

plain_node(task) ==
    [name    |-> task.id,
     shape   |-> "rect",
     title   |-> task.title,
     ports   |-> <<>>,
     bgcolor |-> background_color(task),
     color   |-> pen_color(task)]

is_plain_any(tasks, twb, task) == ~HasKey(twb, task.id)

is_plain(tasks, twb, task) ==
    ~HasKey(twb, task.id) /\ task.is_branch_of = <<>>

nodes_without_branches(tasks, twb) ==
    LET plain == SelectSeq(tasks, LAMBDA task : is_plain(tasks, twb, task))
    IN  [i \in DOMAIN plain |-> plain_node(plain[i])]

(***************************************************************************)
(* Edges                                                                   *)
(***************************************************************************)

West == <<"w">>

East == <<"e">>

head_name_xor_first(tasks, twb, blocked_task_id) ==
    LET blocked_task == Get(tasks, blocked_task_id)
    IN  IF HasKey(twb, blocked_task_id)
        THEN blocked_task_id \o <<":">> \o XorPort \o <<":">> \o West
        ELSE IF blocked_task.is_branch_of # <<>>
        THEN Head(blocked_task.is_branch_of) \o <<":">> \o blocked_task_id
                 \o <<":">> \o West
        ELSE blocked_task_id

\* Destination: f'{parent_node_id}:{blocked_task_id}:w', else
\* f'{blocked_task_id}:xor:w', else the id itself.
head_name(tasks, twb, blocked_task_id) ==
    LET blocked_task == Get(tasks, blocked_task_id)
    IN  IF blocked_task.is_branch_of # <<>>
        THEN Head(blocked_task.is_branch_of) \o <<":">> \o blocked_task_id
                 \o <<":">> \o West
        ELSE IF HasKey(twb, blocked_task_id)
        THEN blocked_task_id \o <<":">> \o XorPort \o <<":">> \o West
        ELSE blocked_task_id

headport(tasks, twb, blocked_task_id) ==
    IF Get(tasks, blocked_task_id).is_branch_of # <<>> \/ HasKey(twb, blocked_task_id)
    THEN Absent
    ELSE West

\* Source: f'{source_task_id}:title:e' for a task with branches.
tail_name(twb, task) ==
    IF HasKey(twb, task.id)
    THEN task.id \o <<":">> \o TitlePort \o <<":">> \o East
    ELSE task.id

tailport(twb, task) == IF HasKey(twb, task.id) THEN Absent ELSE East

\* One graph.edge(...) call.
edge(tasks, twb, task, blocked_task_id) ==
    [tail_name |-> tail_name(twb, task),
     head_name |-> head_name(tasks, twb, blocked_task_id),
     headport  |-> headport(tasks, twb, blocked_task_id),
     tailport  |-> tailport(twb, task)]

\* The ids of task.blocks that self.task_by_id.get finds.
blocked_present(tasks, task) ==
    SelectSeq(task.blocks, LAMBDA blocked_task_id : HasKey(tasks, blocked_task_id))

edges_of_task(tasks, twb, task) ==
    LET present == blocked_present(tasks, task)
    IN  IF HasKey(tasks, task.id)
        THEN [i \in DOMAIN present |-> edge(tasks, twb, task, present[i])]
        ELSE <<>>

RECURSIVE EdgesFrom(_, _, _)
EdgesFrom(tasks, twb, k) ==
    IF k > Len(tasks) THEN <<>>
    ELSE edges_of_task(tasks, twb, tasks[k]) \o EdgesFrom(tasks, twb, k + 1)

draw_edges(tasks, twb) == EdgesFrom(tasks, twb, 1)

(***************************************************************************)
(* The facet: one show() call at a time on one GraphvizRoadmap instance    *)
(***************************************************************************)

VARIABLES
    records,        \* the rows stored_query('tasks.sparql') returns
    yielded,        \* what _task_by_id_stream yielded when it last ran
    cached_task_by_id,                  \* the instance's cached_property
    cached_task_with_branches_by_id,    \* the instance's cached_property
    nodes,          \* the graph.node calls of the current show(), in order
    edges,          \* the graph.edge calls of the current show(), in order
    rendered,       \* graph.render was called
    error,          \* the key of the KeyError show() raised, or Absent
    pc

vars == <<records, yielded, cached_task_by_id, cached_task_with_branches_by_id,
          nodes, edges, rendered, error, pc>>

NotCached == [cached |-> FALSE, value |-> <<>>]

Cached(v) == [cached |-> TRUE, value |-> v]

Title == <<"T">>

GraphIds == {<<"p">>, <<"q">>, <<"r", ":", "1">>}

\* Rows about the shape of the graph: a row names a task and carries at most
\* one reference.
GraphRows ==
    {[task |-> t, title |-> Title, is_bug |-> FALSE, is_focused |-> FALSE,
      blocks |-> ref[1], is_branch_of |-> ref[2]] :
        t \in GraphIds,
        ref \in {<<Absent, Absent>>} \cup {<<d, Absent>> : d \in GraphIds}
                    \cup {<<Absent, d>> : d \in GraphIds}}

RecordIds == {<<"a", ":", "b">>, <<"a", "_", "b">>}

\* Rows about the fields of one task: any key may be missing.
RecordRows ==
    [task : RecordIds \cup {Absent}, title : {Title, Absent},
     is_bug : BOOLEAN, is_focused : BOOLEAN,
     blocks : {Absent}, is_branch_of : {Absent}]

CallIds == {<<"p">>, <<"q">>}

CallRows ==
    [task : CallIds, title : {Title}, is_bug : {FALSE}, is_focused : {FALSE},
     blocks : {Absent, <<"p">>}, is_branch_of : {Absent}]

Streams(R, n) == UNION {[1..k -> R] : k \in 0..n}

InitFacet ==
    /\ yielded = <<>>
    /\ cached_task_by_id = NotCached
    /\ cached_task_with_branches_by_id = NotCached
    /\ nodes = <<>>
    /\ edges = <<>>
    /\ rendered = FALSE
    /\ error = Absent
    /\ pc = "idle"

Init == records \in Streams(GraphRows, MaxRows) /\ InitFacet

InitRecords == records \in Streams(RecordRows, MaxRows) /\ InitFacet

InitCalls == records \in Streams(CallRows, MaxCallRows) /\ InitFacet

\* show(), lines 122-127: a new, empty Digraph.
NewGraph ==
    /\ nodes' = <<>>
    /\ edges' = <<>>
    /\ rendered' = FALSE
    /\ error' = Absent
    /\ pc' = "draw_nodes_with_branches"
    /\ UNCHANGED <<records, yielded, cached_task_by_id,
                   cached_task_with_branches_by_id>>

Show == pc = "idle" /\ NewGraph

Raise(key) ==
    /\ error' = key
    /\ pc' = "error"
    /\ UNCHANGED <<records, nodes, edges, rendered>>

\* The first parent, in the order of the sorted groups, that the Task map
\* lacks; Absent when there is none.
first_dangling(tasks) ==
    LET keys == SortedKeys(Parents(tasks))
        bad  == {k \in DOMAIN keys : ~HasKey(tasks, keys[k])}
    IN  IF bad = {} THEN Absent
        ELSE keys[CHOOSE k \in bad : \A j \in bad : k <= j]

\* draw_nodes_with_branches: reading self.task_with_branches_by_id computes
\* and caches it, which reads (computes and caches) self.task_by_id; a
\* property whose computation raises is not cached.
DrawNodesWithBranches ==
    /\ pc = "draw_nodes_with_branches"
    /\ IF cached_task_with_branches_by_id.cached
       THEN /\ nodes' = nodes \o nodes_with_branches(cached_task_with_branches_by_id.value)
            /\ pc' = "draw_nodes_without_branches"
            /\ UNCHANGED <<records, yielded, cached_task_by_id,
                           cached_task_with_branches_by_id, edges, rendered, error>>
       ELSE IF ~cached_task_by_id.cached /\ MissingKey(records) # Absent
       THEN /\ Raise(MissingKey(records))
            /\ UNCHANGED <<yielded, cached_task_by_id, cached_task_with_branches_by_id>>
       ELSE \E stream \in (IF cached_task_by_id.cached
                           THEN {yielded}
                           ELSE task_by_id_stream(records)) :
              LET tasks == IF cached_task_by_id.cached
                           THEN cached_task_by_id.value
                           ELSE dict(stream)
              IN  /\ yielded' = stream
                  /\ cached_task_by_id' = Cached(tasks)
                  /\ IF first_dangling(tasks) # Absent
                     THEN /\ Raise(first_dangling(tasks))
                          /\ UNCHANGED cached_task_with_branches_by_id
                     ELSE LET twb == task_with_branches_by_id(tasks)
                          IN  /\ cached_task_with_branches_by_id' = Cached(twb)
                              /\ nodes' = nodes \o nodes_with_branches(twb)
                              /\ pc' = "draw_nodes_without_branches"
                              /\ UNCHANGED <<records, edges, rendered, error>>

\* Both properties are cached once draw_nodes_with_branches has returned.
DrawNodesWithoutBranches ==
    /\ pc = "draw_nodes_without_branches"
    /\ nodes' = nodes \o nodes_without_branches(
                    cached_task_by_id.value, cached_task_with_branches_by_id.value)
    /\ pc' = "draw_edges"
    /\ UNCHANGED <<records, yielded, cached_task_by_id, cached_task_with_branches_by_id,
                   edges, rendered, error>>

DrawEdges ==
    /\ pc = "draw_edges"
    /\ edges' = edges \o draw_edges(
                    cached_task_by_id.value, cached_task_with_branches_by_id.value)
    /\ pc' = "render"
    /\ UNCHANGED <<records, yielded, cached_task_by_id, cached_task_with_branches_by_id,
                   nodes, rendered, error>>

Render ==
    /\ pc = "render"
    /\ rendered' = TRUE
    /\ pc' = "done"
    /\ UNCHANGED <<records, yielded, cached_task_by_id, cached_task_with_branches_by_id,
                   nodes, edges, error>>

\* show() called again on the same instance, after it returned or raised.
ShowAgain == pc \in {"done", "error"} /\ NewGraph

\* The store answers the query with other rows from now on.
UpdateRecords ==
    /\ pc \in {"done", "error"}
    /\ \E rows \in Streams(CallRows, MaxCallRows) :
          /\ rows # records
          /\ records' = rows
    /\ UNCHANGED <<yielded, cached_task_by_id, cached_task_with_branches_by_id,
                   nodes, edges, rendered, error, pc>>

Next ==
    \/ Show
    \/ DrawNodesWithBranches
    \/ DrawNodesWithoutBranches
    \/ DrawEdges
    \/ Render

NextCalls ==
    \/ Next
    \/ ShowAgain
    \/ UpdateRecords

\* One show() call on a fresh instance, over streams about the graph.
Spec == Init /\ [][Next]_vars

\* One show() call on a fresh instance, over streams about one task's fields.
SpecRecords == InitRecords /\ [][Next]_vars

\* show() called repeatedly on one instance while the records change.
SpecCalls == InitCalls /\ [][NextCalls]_vars

(***************************************************************************)
(* Reading the state                                                       *)
(***************************************************************************)

Tasks == cached_task_by_id.value

Twb == cached_task_with_branches_by_id.value

\* How the graph engine reads an endpoint: node[:port[:compass]].
Colons(s) == {i \in DOMAIN s : s[i] = ":"}

FirstColon(s) == CHOOSE i \in Colons(s) : \A j \in Colons(s) : i <= j

EndpointNode(s) == IF Colons(s) = {} THEN s ELSE SubSeq(s, 1, FirstColon(s) - 1)

EndpointRest(s) ==
    IF Colons(s) = {} THEN <<>> ELSE SubSeq(s, FirstColon(s) + 1, Len(s))

EndpointPort(s) == EndpointNode(EndpointRest(s))

EndpointCompass(s) == EndpointRest(EndpointRest(s))

\* The task an edge leaves, and the task it enters: the port when the head
\* names a branch's row, the node otherwise.
EdgeSource(e) == EndpointNode(e.tail_name)

EdgeDest(e) ==
    IF EndpointPort(e.head_name) \in {Absent, XorPort}
    THEN EndpointNode(e.head_name)
    ELSE EndpointPort(e.head_name)

EdgeCount(t, d) ==
    Cardinality({i \in DOMAIN edges : EdgeSource(edges[i]) = t /\ EdgeDest(edges[i]) = d})

IsBranch(id) == HasKey(Tasks, id) /\ Get(Tasks, id).is_branch_of # <<>>

NodesNamed(id) == {i \in DOMAIN nodes : nodes[i].name = id}

\* The rows of the stream that carry the same task id as row i.
GroupOf(i) == {j \in DOMAIN records : records[j].task = records[i].task}

IsFirstOfGroup(i) == \A j \in GroupOf(i) : i <= j

(***************************************************************************)
(* C1: when a render completes, the edges are exactly the pairs (T, D)     *)
(* with T in the task map, D in T.blocks and D in the task map, one edge   *)
(* per pair; a D the task map lacks yields no edge and no error.           *)
(***************************************************************************)
C1_EdgesExactlyValidPairs ==
    /\ pc = "error" =>
          \E i \in DOMAIN Tasks : \E p \in Range(Tasks[i].is_branch_of) : ~HasKey(Tasks, p)
    /\ pc = "done" =>
        /\ \A i \in DOMAIN Tasks : \A d \in Range(Tasks[i].blocks) :
              EdgeCount(Tasks[i].id, d) = IF HasKey(Tasks, d) THEN 1 ELSE 0
        /\ \A i \in DOMAIN edges :
              /\ HasKey(Tasks, EdgeSource(edges[i]))
              /\ HasKey(Tasks, EdgeDest(edges[i]))
              /\ EdgeDest(edges[i]) \in Range(Get(Tasks, EdgeSource(edges[i])).blocks)

\* Two rows repeat one blocks reference, another reference dangles, and an
\* edge was emitted.
C1_Witness ==
    /\ pc = "done"
    /\ edges # <<>>
    /\ \E i, j \in DOMAIN records :
          /\ i < j
          /\ records[i] = records[j]
          /\ records[i].blocks # Absent
          /\ HasKey(Tasks, as_graph_id(records[i].blocks))
    /\ \E i \in DOMAIN Tasks : \E d \in Range(Tasks[i].blocks) : ~HasKey(Tasks, d)

(***************************************************************************)
(* C2: the head of every edge T->D is (a) parent:D:w with no headport when *)
(* D is a branch, (b) otherwise D:xor:w with no headport when D has        *)
(* branches, (c) otherwise D with headport w; (a) wins over (b).           *)
(***************************************************************************)
C2_DestinationPriority ==
    \A i \in DOMAIN edges :
        LET e == edges[i]
            D == Get(Tasks, EdgeDest(e))
        IN  IF D.is_branch_of # <<>>
            THEN /\ EndpointNode(e.head_name) \in Range(D.is_branch_of)
                 /\ EndpointPort(e.head_name) = D.id
                 /\ EndpointCompass(e.head_name) = West
                 /\ e.headport = Absent
            ELSE IF HasKey(Twb, D.id)
            THEN /\ EndpointNode(e.head_name) = D.id
                 /\ EndpointPort(e.head_name) = XorPort
                 /\ EndpointCompass(e.head_name) = West
                 /\ e.headport = Absent
            ELSE /\ e.head_name = D.id
                 /\ e.headport = West

\* An edge enters a task that is a branch of another task and has branches.
C2_Witness ==
    /\ pc = "done"
    /\ \E i \in DOMAIN edges :
          /\ IsBranch(EdgeDest(edges[i]))
          /\ HasKey(Twb, EdgeDest(edges[i]))
          /\ EndpointNode(edges[i].head_name) # EdgeDest(edges[i])

(***************************************************************************)
(* C3: once task_with_branches_by_id is computed, X is one of its keys iff *)
(* some Task of the task map has X in is_branch_of, and X's branches are   *)
(* exactly those Tasks, each once.                                         *)
(***************************************************************************)
C3_CompoundIffDeclared ==
    cached_task_with_branches_by_id.cached =>
        /\ \A X \in {Tasks[i].id : i \in DOMAIN Tasks} \cup {Twb[k].id : k \in DOMAIN Twb}
                    \cup UNION {Range(Tasks[i].is_branch_of) : i \in DOMAIN Tasks} :
              HasKey(Twb, X) <=>
                  \E i \in DOMAIN Tasks : X \in Range(Tasks[i].is_branch_of)
        /\ \A k \in DOMAIN Twb :
              /\ \A j \in DOMAIN Twb : Twb[j].id = Twb[k].id => j = k
              /\ Range(Twb[k].branches) \subseteq Range(Tasks)
              /\ \A i \in DOMAIN Tasks :
                    Cardinality({n \in DOMAIN Twb[k].branches :
                                    Twb[k].branches[n] = Tasks[i]})
                        = IF Twb[k].id \in Range(Tasks[i].is_branch_of) THEN 1 ELSE 0

\* A task has two branches, and another task has none.
C3_Witness ==
    /\ cached_task_with_branches_by_id.cached
    /\ \E k \in DOMAIN Twb : Len(Twb[k].branches) = 2
    /\ \E i \in DOMAIN Tasks : ~HasKey(Twb, Tasks[i].id)

(***************************************************************************)
(* C4 as stated: no task with a non-empty is_branch_of is emitted as a     *)
(* top-level node, also when it has branches of its own.                   *)
(***************************************************************************)
C4_BranchNeverTopLevel ==
    \A i \in DOMAIN nodes : ~IsBranch(nodes[i].name)

(***************************************************************************)
(* C4 amended: a task with a non-empty is_branch_of is never emitted as a  *)
(* plain rectangle; it is emitted as a top-level node only when it is a    *)
(* key of the compound-task map, and then as its compound table node.      *)
(***************************************************************************)
C4_BranchOnlyAsCompound ==
    \A i \in DOMAIN nodes :
        IsBranch(nodes[i].name) =>
            /\ nodes[i].shape = "none"
            /\ HasKey(Twb, nodes[i].name)

\* One branch without branches got no node; another branch, with branches,
\* got its table node.
C4_Witness ==
    /\ pc = "done"
    /\ \E i \in DOMAIN Tasks :
          /\ Tasks[i].is_branch_of # <<>>
          /\ ~HasKey(Twb, Tasks[i].id)
          /\ NodesNamed(Tasks[i].id) = {}
    /\ \E i \in DOMAIN nodes : IsBranch(nodes[i].name)

(***************************************************************************)
(* C5 as stated: the Task of a group has is_bug (is_focused) iff some row  *)
(* of the group carries the marker.                                        *)
(***************************************************************************)
C5_FlagsFromAnyRow ==
    \A k \in DOMAIN yielded :
        LET rows == grouped_rows(records)[k].rows
        IN  /\ yielded[k].is_bug <=> \E i \in DOMAIN rows : rows[i].is_bug
            /\ yielded[k].is_focused <=> \E i \in DOMAIN rows : rows[i].is_focused

(***************************************************************************)
(* C5 amended: the Task of a group has is_bug (is_focused) iff the first   *)
(* row of the group, in stream order, carries the marker.                  *)
(***************************************************************************)
C5_FlagsFromFirstRow ==
    \A i \in DOMAIN records :
        (yielded # <<>> /\ IsFirstOfGroup(i)) =>
            \E k \in DOMAIN yielded :
                /\ grouped_rows(records)[k].task_id = records[i].task
                /\ yielded[k].id = as_graph_id(records[i].task)
                /\ yielded[k].is_bug = records[i].is_bug
                /\ yielded[k].is_focused = records[i].is_focused

\* A group whose first row has neither marker and whose later row has both.
C5_Witness ==
    /\ pc = "done"
    /\ \E i, j \in DOMAIN records :
          /\ IsFirstOfGroup(i)
          /\ j \in GroupOf(i)
          /\ ~records[i].is_bug /\ records[j].is_bug
          /\ ~records[i].is_focused /\ records[j].is_focused
          /\ ~Get(Tasks, as_graph_id(records[i].task)).is_bug

(***************************************************************************)
(* C6: the task map has one entry per distinct input task id, also when    *)
(* two ids differ only by ':' versus '_'.                                  *)
(***************************************************************************)
C6_OneEntryPerTaskId ==
    cached_task_by_id.cached =>
        Len(Tasks) = Cardinality({records[i].task : i \in DOMAIN records})

(***************************************************************************)
(* C7 as stated: a row lacking task or title, first of its group or not,   *)
(* makes the render abort with no node, no edge and no graph.render.       *)
(***************************************************************************)
C7_AnyRowMissingAborts ==
    (\E i \in DOMAIN records : records[i].task = Absent \/ records[i].title = Absent) =>
        /\ pc \in {"idle", "draw_nodes_with_branches", "error"}
        /\ nodes = <<>> /\ edges = <<>> /\ ~rendered

(***************************************************************************)
(* C7 amended: a row lacking task, or the first row of a task's group      *)
(* lacking title, makes the render abort with no node, no edge and no      *)
(* graph.render.                                                           *)
(***************************************************************************)
C7_MissingKeyAborts ==
    (\E i \in DOMAIN records :
        \/ records[i].task = Absent
        \/ records[i].title = Absent /\ IsFirstOfGroup(i)) =>
        /\ pc \in {"idle", "draw_nodes_with_branches", "error"}
        /\ nodes = <<>> /\ edges = <<>> /\ ~rendered
        /\ pc = "error" => error \in {<<"t", "a", "s", "k">>, <<"t", "i", "t", "l", "e">>}

\* The render aborted on a title missing from the first row of a group that
\* has a later row with a title.
C7_Witness ==
    /\ pc = "error"
    /\ error = <<"t", "i", "t", "l", "e">>
    /\ \E i, j \in DOMAIN records :
          /\ IsFirstOfGroup(i) /\ j \in GroupOf(i) /\ i < j
          /\ records[i].title = Absent /\ records[j].title # Absent

(***************************************************************************)
(* C8: a parent id in some is_branch_of that the task map lacks makes      *)
(* show() raise a lookup error: no compound map, no graph.render, the      *)
(* parent is not skipped.                                                  *)
(***************************************************************************)
C8_DanglingParentRaises ==
    (/\ cached_task_by_id.cached
     /\ \E i \in DOMAIN Tasks : \E p \in Range(Tasks[i].is_branch_of) : ~HasKey(Tasks, p)) =>
        /\ pc = "error"
        /\ error # Absent /\ ~HasKey(Tasks, error)
        /\ \E i \in DOMAIN Tasks : error \in Range(Tasks[i].is_branch_of)
        /\ ~cached_task_with_branches_by_id.cached
        /\ nodes = <<>> /\ edges = <<>> /\ ~rendered

\* The lookup failed while another parent of the stream is in the task map.
C8_Witness ==
    /\ pc = "error"
    /\ error # Absent
    /\ \E i \in DOMAIN Tasks : \E p \in Range(Tasks[i].is_branch_of) : HasKey(Tasks, p)

(***************************************************************************)
(* C9: each show() call draws the records available at that call: when the *)
(* drawing is finished the nodes are those of the current records' tasks.  *)
(***************************************************************************)
C9_EachCallReadsRecords ==
    pc = "render" =>
        {nodes[i].name : i \in DOMAIN nodes}
            = {as_graph_id(records[i].task) : i \in DOMAIN records}

(***************************************************************************)
(* C10: when a render completes, each endpoint of each edge names a node   *)
(* that was emitted, and its port, if any, is a port of that node.         *)
(***************************************************************************)
C10_EndpointsAreEmittedNodes ==
    pc = "done" =>
        \A i \in DOMAIN edges : \A s \in {edges[i].tail_name, edges[i].head_name} :
            \E n \in DOMAIN nodes :
                /\ nodes[n].name = EndpointNode(s)
                /\ EndpointPort(s) = Absent \/ EndpointPort(s) \in Range(nodes[n].ports)

====
